---- MODULE Spec2Model ----
(***************************************************************************)
(* Model of plugins/fonts/subset/subset_font.py: the common-character set  *)
(* builder, the font reducer subset_font_aggressive and the batch driver   *)
(* under __main__.                                                          *)
(*                                                                         *)
(* The font library (fontTools) and the file system are the environment:   *)
(* every call into them either completes or raises, and what it raises is  *)
(* chosen nondeterministically among the exception classes the call can    *)
(* produce.  A font handle counts as released only when close() is called  *)
(* on it; reclamation of unreachable objects by the runtime is not a       *)
(* release the script performs.                                            *)
(***************************************************************************)
EXTENDS Integers, Sequences, FiniteSets, TLC

VARIABLES
    pc,             \* the statement the script executes next
    idx,            \* position of the for loop in fonts_to_process
    exc,            \* exception in flight at the try statement, or NoExc
    sourceFile,     \* per job: what lies at the source path
    source_font,    \* the TTFont object of the running call, or NoFont
    source_chars,   \* local of subset_font_aggressive
    common_chars,   \* local of subset_font_aggressive
    chars_to_keep,  \* local of subset_font_aggressive
    unicodes,       \* what Subsetter.populate received in the running call
    output_cmap,    \* code points of the font file the running call saved
    file_size,      \* size in bytes of the file the running call saved
    new_size,       \* local of subset_font_aggressive, <<bytes, divisor>>
    openHandles,    \* jobs whose TTFont was constructed and not closed
    writes,         \* <<job, path>> of every file written
    log,            \* per job: the steps of the call that completed
    raised,         \* per job: the step that raised and the class raised
    attempts,       \* per job: number of calls of subset_font_aggressive
    report,         \* per job: what the driver printed for the job
    thresholdMsgs,  \* per job: the threshold messages printed
    banner,         \* number of times the completion banner was printed
    exitStatus      \* exit status of the process, NoStatus while running

vars == <<pc, idx, exc, sourceFile, source_font, source_chars, common_chars,
          chars_to_keep, unicodes, output_cmap, file_size, new_size, openHandles, writes,
          log, raised, attempts, report, thresholdMsgs, banner, exitStatus>>

----------------------------------------------------------------------------
(* Bounds of the model *)

\* largest number of cmap subtables of a source font
MaxTables == 2

\* code points a source font may map: U+0041 (A), U+4E2D and U+1F600 (an emoji)
CodePoints == {65, 20013, 128512}

\* sizes in bytes an output file may have, around the 20 MB limit
OutputSizes == {20971519, 20971520, 20971521}

----------------------------------------------------------------------------
(* Values *)

NoExc == "NoExc"
\* no TTFont object
NoFont == [none |-> TRUE]

\* the process has not exited: a value no exit status has
NoStatus == 0 - 1
\* an unbound set of code points, an unbound set of ranges
NoSet == {-1}
NoRanges == {<<-1, -1>>}
\* no file saved: a value no file size has
NoSize == 0 - 1

\* an unbound size in MB
NoMB == <<>>

\* kinds of content at a source path
FileKinds == {"missing", "malformed", "font"}

\* in-memory fonts: whether a cmap table is present, and its subtables
Fonts ==
    {[hasCmap |-> FALSE, tables |-> <<>>]} \cup
    {[hasCmap |-> TRUE, tables |-> t] :
        t \in UNION {[1..n -> SUBSET CodePoints] : n \in 0..MaxTables}}

----------------------------------------------------------------------------
(* get_common_chinese_chars *)

\* Python's range(a, b), kept as its two bounds: a is included, b excluded
range(a, b) == <<a, b>>

InRange(c, r) == r[1] <= c /\ c < r[2]

\* chars = set(); chars.update(range(...)) ...; return chars.
\* The set of code points is kept as the set of the ranges whose union it is.
get_common_chinese_chars ==
    { range(32, 127),
      range(8192, 8303),
      range(12288, 12351),
      range(65280, 65519),
      range(19968, 40870),
      range(12352, 12447),
      range(12448, 12543) }

\* c in chars, for a set of code points kept as a set of ranges
Member(c, chars) == \E r \in chars : InRange(c, r)

----------------------------------------------------------------------------
(* __main__: the job list and its paths *)

fonts_to_process ==
    << <<"SourceHanSerifSC.otf", "SourceHanSerifSC-subset.otf">>,
       <<"SourceHanSansSC-Bold.otf", "SourceHanSansSC-Bold-subset.otf">> >>

Jobs == 1 .. Len(fonts_to_process)

script_dir == "script_dir"

\* os.path.join of a directory and a file name
join(dir, name) == <<dir, name>>

source_path(j) == join(script_dir, fonts_to_process[j][1])

\* a driver that reduces the fonts in place
output_path_inplace(j) == join(script_dir, fonts_to_process[j][1])

output_path(j) == join(script_dir, fonts_to_process[j][2])

----------------------------------------------------------------------------
(* subset_font_aggressive: helpers *)

\* a reducer that saves before it subsets
Succ_saveFirst(p) ==
    CASE p = "TTFont"    -> "cmap"
      [] p = "cmap"      -> "common"
      [] p = "common"    -> "intersect"
      [] p = "intersect" -> "save"
      [] p = "save"      -> "subset"
      [] p = "subset"    -> "close"
      [] p = "close"     -> "getsize"
      [] p = "getsize"   -> "threshold"
      [] p = "threshold" -> "return"

\* the statements of subset_font_aggressive in program order
Succ(p) ==
    CASE p = "TTFont"    -> "cmap"
      [] p = "cmap"      -> "common"
      [] p = "common"    -> "intersect"
      [] p = "intersect" -> "subset"
      [] p = "subset"    -> "save"
      [] p = "save"      -> "close"
      [] p = "close"     -> "getsize"
      [] p = "getsize"   -> "threshold"
      [] p = "threshold" -> "return"

\* union of the key sets of the cmap subtables
Coverage(font) == UNION {font.tables[i] : i \in DOMAIN font.tables}

\* a reducer that forgets the intersection and keeps the whole source coverage
Keep_source(common, source) == source

\* common_chars & source_chars
Keep(common, source) == {c \in source : Member(c, common)}

\* Subsetter.populate(unicodes=...) followed by Subsetter.subset(font):
\* every subtable keeps the requested code points only
Subsetted(font, requested) ==
    [font EXCEPT !.tables = [i \in DOMAIN font.tables |->
                                font.tables[i] \cap requested]]

\* os.path.getsize(path) / (1024 * 1024), kept as an exact fraction
SizeMB(bytes) == <<bytes, 1024 * 1024>>

\* a comparison that excludes the boundary
WithinLimit_strict(size) == size[1] < 20 * size[2]

\* new_size <= 20
WithinLimit(size) == size[1] <= 20 * size[2]

----------------------------------------------------------------------------
(* __main__: helpers *)

\* exception classes the calls of a job raise; all derive from Exception
Exceptions ==
    {"FileNotFoundError", "OSError", "TTLibError", "KeyError", "SubsettingError"}

\* a try statement without the except Exception clause
Handler_narrow(e) ==
    IF e = "FileNotFoundError" THEN "notfound" ELSE "uncaught"

\* the except clause of the try statement that takes an exception
Handler(e) ==
    IF e = "FileNotFoundError" THEN "notfound"
    ELSE IF e \in Exceptions THEN "error"
    ELSE "uncaught"

\* a driver that tries the failed entry again
AfterContinue_retry(i) == i

\* continue: the loop goes on with the entry after the failed one
AfterContinue(i) == i + 1

----------------------------------------------------------------------------
(* Initial state *)

Init ==
    /\ pc = "for"
    /\ idx = 1
    /\ exc = NoExc
    /\ sourceFile \in [Jobs -> FileKinds]
    /\ source_font = NoFont
    /\ source_chars = NoSet
    /\ common_chars = NoRanges
    /\ chars_to_keep = NoSet
    /\ unicodes = NoSet
    /\ output_cmap = NoSet
    /\ file_size = NoSize
    /\ new_size = NoMB
    /\ openHandles = {}
    /\ writes = {}
    /\ log = [j \in Jobs |-> <<>>]
    /\ raised = [j \in Jobs |-> <<>>]
    /\ attempts = [j \in Jobs |-> 0]
    /\ report = [j \in Jobs |-> "none"]
    /\ thresholdMsgs = [j \in Jobs |-> {}]
    /\ banner = 0
    /\ exitStatus = NoStatus

\* the frame of subset_font_aggressive is gone: its locals no longer exist
FrameDropped ==
    /\ source_font' = NoFont
    /\ source_chars' = NoSet
    /\ common_chars' = NoRanges
    /\ chars_to_keep' = NoSet
    /\ unicodes' = NoSet
    /\ output_cmap' = NoSet
    /\ file_size' = NoSize
    /\ new_size' = NoMB

\* the statement at pc raises e: the call is left, the try statement gets e
Raise(e) ==
    /\ pc' = "except"
    /\ exc' = e
    /\ raised' = [raised EXCEPT ![idx] = <<pc, e>>]
    /\ FrameDropped

\* the statement at pc completes
Completes ==
    /\ pc' = Succ(pc)
    /\ log' = [log EXCEPT ![idx] = Append(@, pc)]

driverVars == <<idx, sourceFile, attempts, report, banner, exitStatus>>

----------------------------------------------------------------------------
(* Actions of __main__ *)

\* for source_name, output_name in fonts_to_process: ... call
NextJob ==
    /\ pc = "for"
    /\ idx <= Len(fonts_to_process)
    /\ pc' = "TTFont"
    /\ attempts' = [attempts EXCEPT ![idx] = @ + 1]
    /\ UNCHANGED <<idx, exc, sourceFile, source_font, source_chars,
                   common_chars, chars_to_keep, unicodes, output_cmap,
                   file_size, new_size, openHandles, writes, log, raised,
                   report, thresholdMsgs, banner, exitStatus>>

\* the call returned: print the per-job completion line
Returned ==
    /\ pc = "return"
    /\ report' = [report EXCEPT ![idx] = "done"]
    /\ FrameDropped
    /\ idx' = idx + 1
    /\ pc' = "for"
    /\ UNCHANGED <<exc, sourceFile, openHandles, writes, log, raised,
                   attempts, thresholdMsgs, banner, exitStatus>>

\* except FileNotFoundError / except Exception
Except ==
    /\ pc = "except"
    /\ LET h == Handler(exc) IN
       IF h = "uncaught"
       THEN /\ pc' = "crashed"
            /\ exitStatus' = 1
            /\ UNCHANGED <<idx, report>>
       ELSE /\ report' = [report EXCEPT ![idx] =
                             IF h = "notfound" THEN "notfound" ELSE "error_trace"]
            /\ idx' = AfterContinue(idx)
            /\ pc' = "for"
            /\ UNCHANGED exitStatus
    /\ exc' = NoExc
    /\ UNCHANGED <<sourceFile, source_font, source_chars, common_chars,
                   chars_to_keep, unicodes, output_cmap, file_size, new_size,
                   openHandles, writes, log, raised, attempts, thresholdMsgs,
                   banner>>

\* the loop is exhausted: print the banner, fall off the end of the script
Finish ==
    /\ pc = "for"
    /\ idx > Len(fonts_to_process)
    /\ banner' = banner + 1
    /\ exitStatus' = 0
    /\ pc' = "done"
    /\ UNCHANGED <<idx, exc, sourceFile, source_font, source_chars,
                   common_chars, chars_to_keep, unicodes, output_cmap,
                   file_size, new_size, openHandles, writes, log, raised,
                   attempts, report, thresholdMsgs>>

----------------------------------------------------------------------------
(* Actions of subset_font_aggressive *)

\* source_font = TTFont(source_font_path)
OpenFont ==
    /\ pc = "TTFont"
    /\ \/ /\ sourceFile[idx] = "missing"
          /\ Raise("FileNotFoundError")
          /\ UNCHANGED <<openHandles, log>>
       \/ /\ sourceFile[idx] = "malformed"
          /\ Raise("TTLibError")
          /\ UNCHANGED <<openHandles, log>>
       \/ /\ sourceFile[idx] = "font"
          /\ \E f \in Fonts : source_font' = f
          /\ openHandles' = openHandles \cup {idx}
          /\ Completes
          /\ UNCHANGED <<exc, raised, source_chars, common_chars,
                         chars_to_keep, unicodes, output_cmap, file_size,
                         new_size>>
    /\ UNCHANGED <<driverVars, writes, thresholdMsgs>>

\* for table in source_font['cmap'].tables: source_chars.update(...)
ReadCmap ==
    /\ pc = "cmap"
    /\ \/ /\ ~source_font.hasCmap
          /\ Raise("KeyError")
          /\ UNCHANGED log
       \/ /\ source_font.hasCmap
          /\ source_chars' = Coverage(source_font)
          /\ Completes
          /\ UNCHANGED <<exc, raised, source_font, common_chars,
                         chars_to_keep, unicodes, output_cmap, file_size,
                         new_size>>
    /\ UNCHANGED <<driverVars, openHandles, writes, thresholdMsgs>>

\* common_chars = get_common_chinese_chars()
BuildCommon ==
    /\ pc = "common"
    /\ common_chars' = get_common_chinese_chars
    /\ Completes
    /\ UNCHANGED <<driverVars, exc, raised, source_font, source_chars,
                   chars_to_keep, unicodes, output_cmap, file_size, new_size,
                   openHandles, writes, thresholdMsgs>>

\* chars_to_keep = common_chars & source_chars
Intersect ==
    /\ pc = "intersect"
    /\ chars_to_keep' = Keep(common_chars, source_chars)
    /\ Completes
    /\ UNCHANGED <<driverVars, exc, raised, source_font, source_chars,
                   common_chars, unicodes, output_cmap, file_size, new_size,
                   openHandles, writes, thresholdMsgs>>

\* subsetter.populate(unicodes=chars_to_keep); subsetter.subset(source_font)
Subset ==
    /\ pc = "subset"
    /\ \/ /\ unicodes' = chars_to_keep
          /\ source_font' = Subsetted(source_font, chars_to_keep)
          /\ Completes
          /\ UNCHANGED <<exc, raised, source_chars, common_chars,
                         chars_to_keep, output_cmap, file_size, new_size>>
       \/ /\ Raise("SubsettingError")
          /\ UNCHANGED log
    /\ UNCHANGED <<driverVars, openHandles, writes, thresholdMsgs>>

\* source_font.save(output_font_path)
Save ==
    /\ pc = "save"
    /\ \/ /\ \E sz \in OutputSizes : file_size' = sz
          /\ output_cmap' = Coverage(source_font)
          /\ writes' = writes \cup {<<idx, output_path(idx)>>}
          /\ Completes
          /\ UNCHANGED <<exc, raised, source_font, source_chars,
                         common_chars, chars_to_keep, unicodes, new_size>>
       \/ /\ Raise("FileNotFoundError")
          /\ UNCHANGED <<writes, log>>
       \/ /\ Raise("OSError")
          /\ \/ writes' = writes
             \/ writes' = writes \cup {<<idx, output_path(idx)>>}
          /\ UNCHANGED log
    /\ UNCHANGED <<driverVars, openHandles, thresholdMsgs>>

\* source_font.close()
Close ==
    /\ pc = "close"
    /\ openHandles' = openHandles \ {idx}
    /\ Completes
    /\ UNCHANGED <<driverVars, exc, raised, source_font, source_chars,
                   common_chars, chars_to_keep, unicodes, output_cmap,
                   file_size, new_size, writes, thresholdMsgs>>

\* original_size, new_size = os.path.getsize(...) / (1024 * 1024); prints
GetSize ==
    /\ pc = "getsize"
    /\ \/ /\ new_size' = SizeMB(file_size)
          /\ Completes
          /\ UNCHANGED <<exc, raised, source_font, source_chars,
                         common_chars, chars_to_keep, unicodes, output_cmap,
                         file_size>>
       \/ /\ \E e \in {"FileNotFoundError", "OSError"} : Raise(e)
          /\ UNCHANGED log
    /\ UNCHANGED <<driverVars, openHandles, writes, thresholdMsgs>>

\* if new_size <= 20: print pass message, else: print warning
Threshold ==
    /\ pc = "threshold"
    /\ thresholdMsgs' = [thresholdMsgs EXCEPT ![idx] =
                            @ \cup {IF WithinLimit(new_size) THEN "pass" ELSE "warn"}]
    /\ Completes
    /\ UNCHANGED <<driverVars, exc, raised, source_font, source_chars,
                   common_chars, chars_to_keep, unicodes, output_cmap,
                   file_size, new_size, openHandles, writes>>

----------------------------------------------------------------------------
(* Specifications *)

Next ==
    \/ NextJob
    \/ OpenFont
    \/ ReadCmap
    \/ BuildCommon
    \/ Intersect
    \/ Subset
    \/ Save
    \/ Close
    \/ GetSize
    \/ Threshold
    \/ Returned
    \/ Except
    \/ Finish

Spec == Init /\ [][Next]_vars

\* the interpreter always executes the next statement
FairSpec == Spec /\ WF_vars(Next)

----------------------------------------------------------------------------
(* Properties *)

Range(seq) == {seq[i] : i \in DOMAIN seq}

IsPrefix(s, t) == Len(s) <= Len(t) /\ \A i \in DOMAIN s : s[i] = t[i]

\* statements of the call during which the TTFont of the call exists
InCall == {"cmap", "common", "intersect", "subset", "save", "close"}

\* the job has been dealt with: the driver printed its outcome
Finished(j) == report[j] # "none"

\* the code points of a set kept as a set of ranges
CodePointsOf(chars) == UNION {r[1] .. (r[2] - 1) : r \in chars}

\* C1: the keep set computed from a source font, and the set handed to the
\* subsetter, is exactly the source coverage intersected with the common
\* character set; the coverage of the saved font lies inside the source
\* coverage and inside the common character set.
C1_KeepSetIsIntersection ==
    /\ (pc \in {"common", "intersect", "subset"})
          => source_chars = Coverage(source_font)
    /\ chars_to_keep # NoSet
          => chars_to_keep = source_chars \cap CodePointsOf(common_chars)
    /\ unicodes # NoSet
          => unicodes = source_chars \cap CodePointsOf(common_chars)
    /\ output_cmap # NoSet
          => /\ output_cmap \subseteq source_chars
             /\ output_cmap \subseteq CodePointsOf(common_chars)

\* C1 witness: source {U+0041, U+4E2D, U+1F600} was saved with {U+0041, U+4E2D}
C1_Witness ==
    /\ source_chars = {65, 20013, 128512}
    /\ unicodes = {65, 20013}
    /\ output_cmap = {65, 20013}

\* C2: every job is attempted exactly once and in list order, whatever the
\* outcomes of the jobs: no job is tried twice, a job is started only after
\* the jobs before it were dealt with, no exception leaves the loop, and
\* when the loop is over every job has been attempted.
C2_EachJobOnceInOrder ==
    /\ \A j \in Jobs : attempts[j] <= 1
    /\ \A j, k \in Jobs : (j < k /\ attempts[k] > 0)
                             => (attempts[j] = 1 /\ Finished(j))
    /\ pc # "crashed"
    /\ idx > Len(fonts_to_process) => \A j \in Jobs : attempts[j] = 1

\* C2 witness: job 1 failed with a processing error and job 2 was attempted
C2_Witness ==
    /\ report[1] = "error_trace"
    /\ attempts[2] = 1
    /\ pc = "done"

\* C3: every run ends: the banner is printed once, after both jobs were
\* attempted, and the exit status is 0 whatever the outcomes of the jobs.
C3_TerminatesWithZero ==
    /\ <>(pc = "done")
    /\ [](pc = "done" => (banner = 1 /\ exitStatus = 0))
    /\ [](banner <= 1 /\ exitStatus \in {NoStatus, 0})
    /\ [](banner = 1 => \A j \in Jobs : attempts[j] = 1 /\ Finished(j))

\* C3 witness: the run ended with status 0 after both jobs failed
C3_Witness ==
    /\ pc = "done"
    /\ exitStatus = 0
    /\ report[1] \in {"notfound", "error_trace"}
    /\ report[2] \in {"notfound", "error_trace"}

\* C4: a font handle is open only while the call that opened it runs, so it
\* is released on every exit path of the call, and at most one is open.
C4_HandleReleasedOnEveryPath ==
    /\ Cardinality(openHandles) <= 1
    /\ \A j \in openHandles : j = idx /\ pc \in InCall

\* C5: a failed job is reported as "font file not found" exactly when its
\* source file is missing; every other failure is reported with a trace.
C5_NotFoundIffSourceMissing ==
    \A j \in Jobs :
        (Finished(j) /\ raised[j] # <<>>)
            => /\ report[j] = "notfound" <=> sourceFile[j] = "missing"
               /\ sourceFile[j] # "missing" => report[j] = "error_trace"

\* the inclusive blocks the common character set is described by
CommonBlocks ==
    (32 .. 126) \cup (8192 .. 8303) \cup (12288 .. 12351) \cup
    (65280 .. 65519) \cup (19968 .. 40869) \cup (12352 .. 12447) \cup
    (12448 .. 12543)

\* C6: the set get_common_chinese_chars returns is the union of the
\* inclusive blocks, both end points of every block included.
C6_InclusiveBlocks ==
    common_chars # NoRanges
        => \A c \in 0 .. 70000 : Member(c, common_chars) <=> c \in CommonBlocks

\* C7: an empty keep set is never handed to the subsetter on the ordinary
\* path; the case has an outcome of its own.
C7_EmptyKeepSetNotPassedOn ==
    unicodes # {}

\* C8 as stated: every finished job whose save succeeded printed exactly one
\* threshold message.
C8_OneMessagePerSavedJob ==
    \A j \in Jobs :
        (Finished(j) /\ "save" \in Range(log[j]))
            => Cardinality(thresholdMsgs[j]) = 1

\* C8 amended: a job prints exactly one threshold message once its save and
\* its size measurement succeeded, the pass message iff the output file has
\* at most 20 * 1024 * 1024 bytes; a job that failed before or during the
\* size measurement prints none.
C8_ThresholdMessage ==
    /\ \A j \in Jobs :
          /\ Cardinality(thresholdMsgs[j]) <= 1
          /\ "getsize" \notin Range(log[j]) => thresholdMsgs[j] = {}
          /\ (Finished(j) /\ "save" \in Range(log[j]) /\ "getsize" \in Range(log[j]))
                => Cardinality(thresholdMsgs[j]) = 1
    /\ pc = "return"
          => /\ thresholdMsgs[idx] = {"pass"} <=> file_size <= 20 * 1024 * 1024
             /\ thresholdMsgs[idx] = {"warn"} <=> file_size > 20 * 1024 * 1024

\* C8 witness: an output of exactly 20 MB passed
C8_Witness ==
    /\ pc = "return"
    /\ file_size = 20 * 1024 * 1024
    /\ thresholdMsgs[idx] = {"pass"}

\* the steps of a call in the order load, coverage, common set, intersect,
\* subset, save, report
StepOrder ==
    <<"TTFont", "cmap", "common", "intersect", "subset", "save", "getsize">>

IsStep(p) == p \in Range(StepOrder)

\* C9: the steps of a call complete in the order load, coverage, common
\* set, intersect, subset, save, report; the output path is written only
\* after the subsetting completed, the sizes are reported only after the
\* save, and a job that failed before the save wrote nothing.
C9_StepsInOrder ==
    \A j \in Jobs :
        /\ IsPrefix(SelectSeq(log[j], IsStep), StepOrder)
        /\ (\E w \in writes : w[1] = j) => "subset" \in Range(log[j])
        /\ "getsize" \in Range(log[j]) => "save" \in Range(log[j])
        /\ (raised[j] # <<>> /\ raised[j][1] \notin {"save", "getsize"})
              => ~ \E w \in writes : w[1] = j

\* C9 witness: job 1 failed in the subsetting step and wrote nothing, job 2
\* went through to the size report
C9_Witness ==
    /\ raised[1] # <<>>
    /\ raised[1][1] = "subset"
    /\ writes = {<<2, output_path(2)>>}
    /\ "getsize" \in Range(log[2])

\* C10: every file written is the output path of the job that wrote it, and
\* no output path is a source path, so no source file is written.
C10_OnlyOutputPathsWritten ==
    /\ \A w \in writes : w[1] \in Jobs /\ w[2] = output_path(w[1])
    /\ \A j, k \in Jobs : output_path(j) # source_path(k)
    /\ \A w \in writes : \A k \in Jobs : w[2] # source_path(k)

\* C10 witness: both jobs wrote their output
C10_Witness ==
    /\ pc = "done"
    /\ Cardinality(writes) = 2

====
